---- MODULE Spec2Model ----
(***************************************************************************)
(* A state-machine model of coax's TD-learning core                        *)
(* (coax/td_learning/_base.py): BaseTDLearning, BaseTDLearningV,           *)
(* BaseTDLearningQ and BaseTDLearningQWithTargetPolicy, together with the  *)
(* function objects, optimizers and regularizer they hold references to.   *)
(*                                                                         *)
(* Floating-point numbers are modelled as exact rationals extended with    *)
(* NaN, +Inf and -Inf, combined by the IEEE-754 rules for the special      *)
(* values (rounding and overflow of finite values are not modelled).       *)
(***************************************************************************)
EXTENDS Integers, Sequences, FiniteSets, TLC

(***************************************************************************)
(* Bounds of the model.                                                    *)
(***************************************************************************)
\* number of operations performed on the learners after construction
MaxSteps == 3
\* number of transitions in a batch (the leading batch dimension)
BatchSize == 2

(***************************************************************************)
(* Extended rationals: the values of ndarray elements.                     *)
(***************************************************************************)
Abs(i) == IF i < 0 THEN -i ELSE i

RECURSIVE Gcd(_, _)
Gcd(a, b) == IF b = 0 THEN a ELSE Gcd(b, a % b)

NaN == [k |-> "nan", n |-> 0, d |-> 1]
PInf == [k |-> "pinf", n |-> 0, d |-> 1]
NInf == [k |-> "ninf", n |-> 0, d |-> 1]

\* the finite value n/d (d # 0) in lowest terms with a positive denominator
Rat(n, d) ==
    LET g == Gcd(Abs(n), Abs(d))
        s == IF d < 0 THEN -1 ELSE 1
    IN [k |-> "fin", n |-> (s * n) \div g, d |-> (s * d) \div g]

Num(i) == Rat(i, 1)
Zero == Num(0)
One == Num(1)

IsNaN(x) == x.k = "nan"
IsInf(x) == x.k \in {"pinf", "ninf"}

\* -1, 0 or 1; only used for values that are not NaN
Sign(x) ==
    CASE x.k = "pinf" -> 1
      [] x.k = "ninf" -> -1
      [] OTHER -> IF x.n > 0 THEN 1 ELSE IF x.n < 0 THEN -1 ELSE 0

FNeg(x) ==
    CASE x.k = "nan" -> NaN
      [] x.k = "pinf" -> NInf
      [] x.k = "ninf" -> PInf
      [] OTHER -> Rat(-x.n, x.d)

FAdd(x, y) ==
    CASE IsNaN(x) \/ IsNaN(y) -> NaN
      [] IsInf(x) /\ IsInf(y) -> IF x.k = y.k THEN x ELSE NaN
      [] IsInf(x) -> x
      [] IsInf(y) -> y
      [] OTHER -> LET g == Gcd(x.d, y.d)
                  IN Rat(x.n * (y.d \div g) + y.n * (x.d \div g), x.d * (y.d \div g))

FSub(x, y) == FAdd(x, FNeg(y))

FMul(x, y) ==
    CASE IsNaN(x) \/ IsNaN(y) -> NaN
      [] IsInf(x) \/ IsInf(y) ->
            IF Sign(x) * Sign(y) = 0 THEN NaN
            ELSE IF Sign(x) * Sign(y) > 0 THEN PInf ELSE NInf
      [] OTHER -> LET g == Gcd(Abs(x.n), y.d)
                      h == Gcd(Abs(y.n), x.d)
                  IN Rat((x.n \div g) * (y.n \div h), (x.d \div h) * (y.d \div g))

FDiv(x, y) ==
    CASE IsNaN(x) \/ IsNaN(y) -> NaN
      [] IsInf(x) /\ IsInf(y) -> NaN
      [] IsInf(x) -> IF Sign(x) * Sign(y) >= 0 THEN
                        (IF Sign(y) = 0 THEN x ELSE PInf)
                     ELSE NInf
      [] IsInf(y) -> Zero
      [] y.n = 0 -> IF x.n = 0 THEN NaN ELSE IF x.n > 0 THEN PInf ELSE NInf
      [] OTHER -> FMul(x, Rat(y.d, y.n))

\* x < y; false when either is NaN
FLt(x, y) ==
    CASE IsNaN(x) \/ IsNaN(y) -> FALSE
      [] x.k = "ninf" -> y.k # "ninf"
      [] x.k = "pinf" -> FALSE
      [] y.k = "pinf" -> TRUE
      [] y.k = "ninf" -> FALSE
      [] OTHER -> x.n * y.d < y.n * x.d

\* jnp.clip(x, lo, hi) = minimum(maximum(x, lo), hi); NaN propagates
FClip(x, lo, hi) ==
    IF IsNaN(x) THEN NaN
    ELSE IF FLt(x, lo) THEN lo
    ELSE IF FLt(hi, x) THEN hi
    ELSE x

FAbs(x) == IF IsNaN(x) THEN NaN ELSE IF Sign(x) < 0 THEN FNeg(x) ELSE x

\* the sum of the first k elements of a rank-1 array, left to right
RECURSIVE FSumTo(_, _)
FSumTo(s, k) == IF k = 0 THEN Zero ELSE FAdd(FSumTo(s, k - 1), s[k])

FSum(s) == FSumTo(s, Len(s))

(***************************************************************************)
(* Pytrees.  A parameter tree is a function from leaf names to values; its *)
(* tree structure (jax.tree_structure) is its set of leaf names.           *)
(***************************************************************************)
\* hk.Linear(1): a weight and a bias
Leaves == {"w", "b"}
Tree(w, b) == [l \in Leaves |-> IF l = "w" THEN w ELSE b]
EmptyTree == [l \in {} |-> Zero]
ZerosLike(t) == [l \in DOMAIN t |-> Zero]

\* Python's None and a present value, as sequences of length 0 and 1
None == <<>>
Some(x) == <<x>>
IsNone(o) == o = <<>>
Get(o) == o[1]

(***************************************************************************)
(* Function objects (coax.V, coax.Q, coax.Policy): the heap.               *)
(***************************************************************************)
ObjIds == {"v", "v_targ", "q", "q2", "q_targ", "pi"}

KindOf(o) ==
    CASE o \in {"v", "v_targ"} -> "v"
      [] o \in {"q", "q2", "q_targ"} -> "q"
      [] OTHER -> "pi"

\* coax.utils.is_vfunction / is_qfunction / is_policy
is_vfunction(o) == KindOf(o) = "v"
is_qfunction(o) == KindOf(o) = "q"
is_policy(o) == KindOf(o) = "pi"

\* the state of a freshly created function object; targets start as copies
InitFn == [o \in ObjIds |->
            [params |-> IF o = "pi" THEN Tree(Rat(1, 2), Zero) ELSE Tree(One, Zero),
             function_state |-> 0,
             rng |-> 0]]

(***************************************************************************)
(* Optimizers (optax.GradientTransformation) and their states.             *)
(*   sgd(lr)        state (EmptyState, ScaleState):       no leaves        *)
(*   momentum(lr)   state (TraceState(trace), ScaleState): one tree        *)
(*   adam(lr)       state (ScaleByAdamState(count, mu, nu), ScaleState)    *)
(* Adam's moment decay rates are taken as 0 and its eps as vanishing, so   *)
(* that the square root of the second moment is exact:                     *)
(* updates = -lr * g / |g|, and 0 where g = 0.                             *)
(***************************************************************************)
Sgd(lr) == [kind |-> "sgd", lr |-> lr]
Momentum(lr) == [kind |-> "momentum", lr |-> lr]
Adam(lr) == [kind |-> "adam", lr |-> lr]

\* optax.adam(1e-3), the optimizer used when none is given
DefaultOptimizer == Adam(Rat(1, 1000))

\* the optimizer state of a learner that was never initialised
NoOptState == [shape |-> "uninit", count |-> 0, mu |-> EmptyTree, nu |-> EmptyTree]

\* optimizer.init(params)
OptInit(opt, params) ==
    CASE opt.kind = "sgd" ->
            [shape |-> "empty", count |-> 0, mu |-> EmptyTree, nu |-> EmptyTree]
      [] opt.kind = "momentum" ->
            [shape |-> "trace", count |-> 0, mu |-> ZerosLike(params), nu |-> EmptyTree]
      [] OTHER ->
            [shape |-> "adam", count |-> 0, mu |-> ZerosLike(params),
             nu |-> ZerosLike(params)]

\* jax.tree_structure of an optimizer state
TreeStructure(st) == [shape |-> st.shape, mu |-> DOMAIN st.mu, nu |-> DOMAIN st.nu]

\* optimizer.update(grads, opt_state, params) for grads of the state's structure
OptUpdate(opt, grads, st, params) ==
    CASE opt.kind = "sgd" ->
            [updates |-> [l \in DOMAIN grads |-> FMul(FNeg(opt.lr), grads[l])],
             state |-> st]
      [] opt.kind = "momentum" ->
            LET trace == [l \in DOMAIN grads |-> FAdd(grads[l], FMul(Rat(1, 2), st.mu[l]))]
            IN [updates |-> [l \in DOMAIN grads |-> FMul(FNeg(opt.lr), trace[l])],
                state |-> [st EXCEPT !.mu = trace]]
      [] OTHER ->
            LET dir == [l \in DOMAIN grads |->
                          IF grads[l] = Zero THEN Zero
                          ELSE FDiv(grads[l], FAbs(grads[l]))]
            IN [updates |-> [l \in DOMAIN grads |-> FMul(FNeg(opt.lr), dir[l])],
                state |-> [st EXCEPT !.count = st.count + 1,
                                     !.mu = grads,
                                     !.nu = [l \in DOMAIN grads |->
                                               FMul(grads[l], grads[l])]]]

\* optax.apply_updates(params, updates)
ApplyUpdates(params, updates) == [l \in DOMAIN params |-> FAdd(params[l], updates[l])]

\* apply_grads_func of BaseTDLearning.__init__.  jax.tree_map raises when the
\* trees it is given differ in structure.
apply_grads_func(opt, opt_state, params, grads) ==
    IF DOMAIN grads # DOMAIN params
    THEN [raised |-> TRUE, opt_state |-> opt_state, params |-> params]
    ELSE LET r == OptUpdate(opt, grads, opt_state, params)
         IN [raised |-> FALSE, opt_state |-> r.state,
             params |-> ApplyUpdates(params, r.updates)]

(***************************************************************************)
(* The policy regularizer (an EntropyRegularizer over the policy pi).      *)
(***************************************************************************)
RegF == "pi"
RegHyperparams == [beta |-> Rat(1, 2)]

\* isinstance(policy_regularizer, (Regularizer, type(None))): the argument is
\* "None", "regularizer" (a Regularizer) or "other" (any other object)
IsRegularizerOrNone(r) == r \in {"None", "regularizer"}

(***************************************************************************)
(* Construction of a TD learner.  An argument record holds what the caller *)
(* passed: cls is the class constructed, f the online function, f_targ the *)
(* target argument (absent, one function, or a list of functions), pi_targ *)
(* the target policy, optimizer and loss_function the optional arguments.  *)
(***************************************************************************)
NoTarg == [form |-> "none", objs |-> <<>>]
OneTarg(o) == [form |-> "single", objs |-> <<o>>]
ListTarg(os) == [form |-> "list", objs |-> os]

Args(cls, f, f_targ, pi_targ, optimizer, loss_function, policy_regularizer) ==
    [cls |-> cls, f |-> f, f_targ |-> f_targ, pi_targ |-> pi_targ,
     optimizer |-> optimizer, loss_function |-> loss_function,
     policy_regularizer |-> policy_regularizer]

NoArgs == Args("", "v", NoTarg, None, None, None, "None")

\* a learner that does not exist (not constructed, or construction raised)
NoLearner ==
    [status |-> "none", exc |-> "", cls |-> "", f |-> "v", f_targ |-> NoTarg,
     pi_targ |-> None, policy_regularizer |-> "None", loss_function |-> "huber",
     optimizer |-> DefaultOptimizer, optimizer_state |-> NoOptState, args |-> NoArgs]

Raised(a, exc) == [NoLearner EXCEPT !.status = "failed", !.exc = exc, !.args = a]

\* the target copy of an online function
CopyOf(o) == IF KindOf(o) = "v" THEN "v_targ" ELSE "q_targ"

\* lines 45-56 with self._f_targ given the value tf
BaseTDLearning__init__with(fnS, a, tf) ==
    IF ~IsRegularizerOrNone(a.policy_regularizer)
    THEN Raised(a, "TypeError")
    ELSE LET opt == IF IsNone(a.optimizer) THEN DefaultOptimizer ELSE Get(a.optimizer)
         IN [status |-> "ready", exc |-> "", cls |-> a.cls,
             f |-> a.f,
             f_targ |-> tf,
             pi_targ |-> IF a.cls = "QPi" THEN a.pi_targ ELSE None,
             policy_regularizer |-> a.policy_regularizer,
             loss_function |-> IF IsNone(a.loss_function) THEN "huber"
                               ELSE Get(a.loss_function),
             optimizer |-> opt,
             optimizer_state |-> OptInit(opt, fnS[a.f].params),
             args |-> a]

\* a construction that bootstraps from a copy when no target is given
BaseTDLearning__init__copy(fnS, a) ==
    BaseTDLearning__init__with(
        fnS, a, IF a.f_targ.form = "none" THEN OneTarg(CopyOf(a.f)) ELSE a.f_targ)

\* a construction that ignores the target it is given
BaseTDLearning__init__self(fnS, a) ==
    BaseTDLearning__init__with(fnS, a, OneTarg(a.f))

\* BaseTDLearning.__init__ (lines 43-56)
BaseTDLearning__init__(fnS, a) ==
    BaseTDLearning__init__with(
        fnS, a, IF a.f_targ.form = "none" THEN OneTarg(a.f) ELSE a.f_targ)

\* BaseTDLearningV.__init__ (lines 225-237)
BaseTDLearningV__init__(fnS, a) ==
    IF ~is_vfunction(a.f) THEN Raised(a, "TypeError")
    ELSE IF ~(a.f_targ.form = "none"
              \/ (a.f_targ.form = "single" /\ is_vfunction(a.f_targ.objs[1])))
    THEN Raised(a, "TypeError")
    ELSE BaseTDLearning__init__(fnS, a)

\* BaseTDLearningQ.__init__ (lines 370-382): a list or tuple passes unexamined
BaseTDLearningQ__init__(fnS, a) ==
    IF ~is_qfunction(a.f) THEN Raised(a, "TypeError")
    ELSE IF ~(a.f_targ.form = "none"
              \/ a.f_targ.form = "list"
              \/ (a.f_targ.form = "single" /\ is_qfunction(a.f_targ.objs[1])))
    THEN Raised(a, "TypeError")
    ELSE BaseTDLearning__init__(fnS, a)

\* BaseTDLearningQWithTargetPolicy.__init__ (lines 518-531)
BaseTDLearningQWithTargetPolicy__init__(fnS, a) ==
    IF ~IsNone(a.pi_targ) /\ ~is_policy(Get(a.pi_targ))
    THEN Raised(a, "TypeError")
    ELSE BaseTDLearningQ__init__(fnS, a)

New(fnS, a) ==
    CASE a.cls = "V" -> BaseTDLearningV__init__(fnS, a)
      [] a.cls = "Q" -> BaseTDLearningQ__init__(fnS, a)
      [] OTHER -> BaseTDLearningQWithTargetPolicy__init__(fnS, a)

(***************************************************************************)
(* The target bundle.                                                      *)
(***************************************************************************)
\* getattr(getattr(self.policy_regularizer, 'f', None), 'params', None)
RegAttr(fnS, L, attr) ==
    IF L.policy_regularizer = "None" THEN None ELSE Some(fnS[RegF][attr])

\* getattr(self.policy_regularizer, 'hyperparams', None)
RegHparams(L) ==
    IF L.policy_regularizer = "None" THEN None ELSE Some(RegHyperparams)

\* getattr(self.pi_targ, attr, None)
PiTargAttr(fnS, L, attr) ==
    IF IsNone(L.pi_targ) THEN None ELSE Some(fnS[Get(L.pi_targ)][attr])

OnlineKey(L) == IF L.cls = "V" THEN "v" ELSE "q"
TargKey(L) == IF L.cls = "V" THEN "v_targ" ELSE "q_targ"

\* self.v_targ.params / self.q_targ.params raises AttributeError when the
\* target is a list or tuple, which has no such attribute
TargetAttrRaises(L) == L.f_targ.form = "list"

\* a dict that leaves the regularizer's keys out when none is configured
TargetDictWithoutNone(fnS, L, attr) ==
    LET keys == {OnlineKey(L), TargKey(L)}
                \cup (IF L.policy_regularizer = "None" THEN {} ELSE {"reg"})
                \cup (IF attr = "params" /\ L.policy_regularizer # "None"
                      THEN {"reg_hparams"} ELSE {})
                \cup (IF L.cls = "QPi" THEN {"pi_targ"} ELSE {})
    IN [k \in keys |->
          CASE k = OnlineKey(L) -> Some(fnS[L.f][attr])
            [] k = TargKey(L) -> Some(fnS[L.f_targ.objs[1]][attr])
            [] k = "pi_targ" -> PiTargAttr(fnS, L, attr)
            [] k = "reg" -> RegAttr(fnS, L, attr)
            [] OTHER -> RegHparams(L)]

\* the dict built by the target_params / target_function_state properties
\* (lines 338-351, 485-498, 533-549); attr is "params" or "function_state"
TargetDict(fnS, L, attr) ==
    LET keys == {OnlineKey(L), TargKey(L), "reg"}
                \cup (IF attr = "params" THEN {"reg_hparams"} ELSE {})
                \cup (IF L.cls = "QPi" THEN {"pi_targ"} ELSE {})
    IN [k \in keys |->
          CASE k = OnlineKey(L) -> Some(fnS[L.f][attr])
            [] k = TargKey(L) -> Some(fnS[L.f_targ.objs[1]][attr])
            [] k = "pi_targ" -> PiTargAttr(fnS, L, attr)
            [] k = "reg" -> RegAttr(fnS, L, attr)
            [] OTHER -> RegHparams(L)]

target_params(fnS, L) == TargetDict(fnS, L, "params")
target_function_state(fnS, L) == TargetDict(fnS, L, "function_state")

(***************************************************************************)
(* Transition batches: one array per field.  An array is its shape and its *)
(* entries in row-major order.                                             *)
(***************************************************************************)
Sample(S, A, Rn, In, S_next, A_next, W) ==
    [S |-> S, A |-> A, Rn |-> Rn, In |-> In, S_next |-> S_next,
     A_next |-> A_next, W |-> W]

Array(shape, data) == [shape |-> shape, data |-> data]

BatchNames ==
    {"plain", "inf", "infzero", "nan", "edge", "extreme", "ragged", "column", "short"}

\* the batches whose arrays do not all have the shape (BatchSize,)
Misshapen == {"ragged", "column", "short"}

\* plain: finite values, the first weight outside [0.1, 10];
\* inf: every reward-sum is +Inf; infzero: the first reward-sum is +Inf and
\* its observation is 0; nan: the first reward-sum is NaN;
\* edge: the weights 10, 0.1, 1, ...; extreme: the weights 1000, 0.0001, 1, ...
Rows(name) ==
    [i \in 1..BatchSize |->
        CASE name = "inf" ->
                Sample(Num(i), One, PInf, Rat(1, 2), Num(i - 1), One, One)
          [] name = "infzero" ->
                Sample(Num(i - 1), One, IF i = 1 THEN PInf ELSE One, Rat(1, 2),
                       Num(i), One, One)
          [] name = "nan" ->
                Sample(Num(i), One, IF i = 1 THEN NaN ELSE One, Rat(1, 2),
                       Num(i - 1), One, One)
          [] name = "edge" ->
                Sample(Num(i), One, One, Rat(1, 2), Num(i - 1), One,
                       IF i = 1 THEN Num(10) ELSE IF i = 2 THEN Rat(1, 10) ELSE One)
          [] name = "extreme" ->
                Sample(Num(i), One, One, Rat(1, 2), Num(i - 1), One,
                       IF i = 1 THEN Num(1000) ELSE IF i = 2 THEN Rat(1, 10000)
                       ELSE One)
          [] OTHER ->
                Sample(Num(i), One, One, Rat(1, 2), Num(i - 1), One,
                       IF i = 1 THEN Num(20) ELSE One)]

\* the field of the rows as an array of the first n rows with the given shape
Column(name, field, n, shape) ==
    Array(shape, [i \in 1..n |-> Rows(name)[i][field]])

\* ragged: W has the shape (1,); column: W has the shape (BatchSize, 1);
\* short: Rn, In, S_next and A_next have the shape (1,); every other array
\* has the shape (BatchSize,)
TransitionBatch(name) ==
    [f \in {"S", "A", "Rn", "In", "S_next", "A_next", "W"} |->
        IF name = "ragged" /\ f = "W" THEN Column(name, f, 1, <<1>>)
        ELSE IF name = "column" /\ f = "W"
        THEN Column(name, f, BatchSize, <<BatchSize, 1>>)
        ELSE IF name = "short" /\ f \in {"Rn", "In", "S_next", "A_next"}
        THEN Column(name, f, 1, <<1>>)
        ELSE Column(name, f, BatchSize, <<BatchSize>>)]

(***************************************************************************)
(* The forward pass, the target, the loss and its gradients.               *)
(***************************************************************************)
\* the function approximator of the example (hk.Linear(1) on the features);
\* its function_state counts the forward passes made in training mode
Forward(params, state, x, is_training) ==
    [out |-> [i \in DOMAIN x |-> FAdd(FMul(params["w"], x[i]), params["b"])],
     state |-> IF is_training THEN state + 1 ELSE state]

\* the features of (S, A): S for a v-function, S (x) A for a type-1 q-function
Features(cls, S, A) ==
    [i \in DOMAIN S |-> IF cls = "V" THEN S[i] ELSE FMul(S[i], A[i])]

Field(batch, name) == batch[name].data

\* policy_regularizer.batch_eval(params, hparams, state, rng, batch)
batch_eval(params, hparams, state, batch) ==
    LET pi == Forward(params, state, Field(batch, "S"), FALSE).out
    IN [i \in DOMAIN pi |-> FMul(hparams.beta, pi[i])]

\* target_func: the bootstrapped target Rn + In * f_targ(S_next[, A_next]);
\* the target function and the target policy are evaluated in inference mode
\* and the states they return are dropped
target_func(L, tparams, tstate, batch) ==
    LET S_next == Field(batch, "S_next")
        A_next == IF L.cls # "QPi" \/ IsNone(tparams["pi_targ"])
                  THEN Field(batch, "A_next")
                  ELSE Forward(Get(tparams["pi_targ"]), Get(tstate["pi_targ"]),
                               S_next, FALSE).out
        next == Forward(Get(tparams[TargKey(L)]), Get(tstate[TargKey(L)]),
                        Features(L.cls, S_next, A_next), FALSE).out
    IN [i \in DOMAIN next |->
            FAdd(Field(batch, "Rn")[i], FMul(Field(batch, "In")[i], next[i]))]

\* loss_function(y_true, y_pred, w): the value of the loss, kept as the call
\* that yields it
Loss(loss_function, y_true, y_pred, w) ==
    [loss_function |-> loss_function, y_true |-> y_true, y_pred |-> y_pred, w |-> w]

\* d loss_function(y_true, y_pred) / d y_pred per sample, before weighting and
\* averaging, as a function of err = y_pred - y_true
dLoss(loss_function, err) ==
    IF loss_function = "mse" THEN err
    ELSE IF IsNaN(err) THEN NaN
    ELSE IF FLt(FAbs(err), One) THEN err
    ELSE Num(Sign(err))

\* numpy broadcasting of rank-1 shapes, one of which is (1,) when they differ
Broadcast(s, t) == IF s = <<1>> THEN t ELSE s

\* the entry of a rank-1 array that broadcasting pairs with index i
At(a, i) == a[IF Len(a) = 1 THEN 1 ELSE i]

\* the shapes of G, V, V_targ and W as loss_func is traced: the functions
\* return one value per observation, the target follows Rn, In and S_next,
\* the regularizer term is the scalar 0. or one value per observation
TracedShapes(L, batch) ==
    [V |-> <<batch.S.shape[1]>>,
     V_targ |-> <<batch.S.shape[1]>>,
     W |-> batch.W.shape,
     G |-> Broadcast(
               Broadcast(batch.Rn.shape,
                         Broadcast(batch.In.shape, <<batch.S_next.shape[1]>>)),
               IF L.policy_regularizer = "None" THEN <<1>>
               ELSE <<batch.S.shape[1]>>)]

\* assertions that leave the target G out
ShapesAgreeButG(sh) ==
    /\ sh.V = sh.V_targ /\ sh.V_targ = sh.W
    /\ \A a \in {"V", "V_targ", "W"} : Len(sh[a]) = 1

\* chex.assert_equal_shape([G, V, V_targ, W]); chex.assert_rank(..., 1)
\* (lines 298-299, 445-446)
ShapesAgree(sh) ==
    /\ sh.G = sh.V /\ sh.V = sh.V_targ /\ sh.V_targ = sh.W
    /\ \A a \in {"G", "V", "V_targ", "W"} : Len(sh[a]) = 1

\* loss terms that keep the state returned by the forward pass with the
\* target parameters
LossTermsTargetState(L, X, W, fwd, T, regularizer, targ) ==
    [exc |-> "", X |-> X, V |-> fwd.out, W |-> W,
     G |-> [i \in DOMAIN fwd.out |-> FAdd(At(T, i), At(regularizer, i))],
     V_targ |-> targ.out,
     state_new |-> targ.state]

\* the per-sample arrays of loss_func once the forward pass (fwd), the
\* target (T), the regularizer term and the forward pass with the target
\* parameters (targ) are known (lines 289-308, 436-455)
LossTerms(L, X, W, fwd, T, regularizer, targ) ==
    [exc |-> "", X |-> X, V |-> fwd.out, W |-> W,
     G |-> [i \in DOMAIN fwd.out |-> FAdd(At(T, i), At(regularizer, i))],
     V_targ |-> targ.out,
     state_new |-> fwd.state]

\* -batch_eval(...) when a regularizer is configured, else 0. (lines 258-265)
RegularizerTerm(L, tparams, tstate, batch) ==
    IF L.policy_regularizer = "None" THEN <<Zero>>
    ELSE [i \in DOMAIN Field(batch, "S") |->
            FNeg(batch_eval(Get(tparams["reg"]), Get(tparams["reg_hparams"]),
                            Get(tstate["reg"]), batch)[i])]

\* weights bounded from above only
ClipWeightsAbove(W) ==
    [i \in DOMAIN W |-> IF FLt(Num(10), W[i]) THEN Num(10) ELSE W[i]]

\* W = jnp.clip(transition_batch.W, 0.1, 10.) (lines 256, 402)
ClipWeights(W) == [i \in DOMAIN W |-> FClip(W[i], Rat(1, 10), Num(10))]

\* loss_func (lines 254-308, 399-455), scalar branch, up to the prediction V,
\* the target G, the clipped weights W, the target-of-target V_targ and the
\* new function state; the loss function itself accepts shapes that
\* broadcast, so that a disagreement of shapes ends at the assertions
loss_func(L, params, tparams, state, tstate, batch) ==
    IF ~ShapesAgree(TracedShapes(L, batch)) THEN [exc |-> "AssertionError"]
    ELSE LossTerms(L,
              Features(L.cls, Field(batch, "S"), Field(batch, "A")),
              ClipWeights(Field(batch, "W")),
              Forward(params, state,
                      Features(L.cls, Field(batch, "S"), Field(batch, "A")), TRUE),
              target_func(L, tparams, tstate, batch),
              RegularizerTerm(L, tparams, tstate, batch),
              Forward(Get(tparams[TargKey(L)]), Get(tstate[TargKey(L)]),
                      Features(L.cls, Field(batch, "S"), Field(batch, "A")), FALSE))

\* jnp.mean of a rank-1 array
FMean(s) == FDiv(FSum(s), Num(Len(s)))

\* TD errors taken from the gradient of the weighted loss
TdErrorsWeighted(L, r) ==
    [i \in DOMAIN r.V |->
        FMul(FNeg(Num(Len(r.V))),
             FDiv(FMul(r.W[i], dLoss(L.loss_function, FSub(r.V[i], r.G[i]))),
                  Num(Len(r.V))))]

\* td_error = -V.shape[0] * dLoss_dV(G, V) (lines 300-301, 447-448), where
\* dLoss_dV is jax.grad of the loss function with unit weights
TdErrors(L, r) ==
    [i \in DOMAIN r.V |->
        FMul(FNeg(Num(Len(r.V))),
             FDiv(dLoss(L.loss_function, FSub(r.V[i], r.G[i])), Num(Len(r.V))))]

\* the metrics dict (lines 303-307, 450-454), td being the td_error array
Metrics(L, r, td) ==
    [loss |-> Loss(L.loss_function, r.G, r.V, r.W),
     td_error |-> FMean([i \in DOMAIN r.V |-> FMul(r.W[i], td[i])]),
     td_error_targ |->
        FMean([i \in DOMAIN r.V |->
                  FNeg(FDiv(FMul(r.W[i],
                                 dLoss(L.loss_function, FSub(r.V_targ[i], r.V[i]))),
                            Num(Len(r.V))))])]

\* the cotangent of the loss mean(W * l(G, V)) at V
Cotangent(L, r) ==
    [i \in DOMAIN r.V |->
        FDiv(FMul(r.W[i], dLoss(L.loss_function, FSub(r.V[i], r.G[i]))),
             Num(Len(r.V)))]

\* the gradient with respect to params of V = w * X + b, given the cotangent
LinearGrads(X, ct) ==
    Tree(FSum([i \in DOMAIN ct |-> FMul(ct[i], X[i])]), FSum(ct))

\* what the jitted functions return when tracing raised
NoResult(exc) ==
    [exc |-> exc, grads |-> EmptyTree, state_new |-> 0, td_error |-> <<>>,
     metrics |-> [loss |-> NaN, td_error |-> NaN, td_error_targ |-> NaN]]

\* grads_and_metrics_func (lines 310-320, 457-467) on the terms r of the loss
GradsOfLoss(L, r) ==
    IF r.exc # "" THEN NoResult(r.exc)
    ELSE [exc |-> "",
          grads |-> LinearGrads(r.X, Cotangent(L, r)),
          state_new |-> r.state_new,
          td_error |-> TdErrors(L, r),
          metrics |-> Metrics(L, r, TdErrors(L, r))]

grads_and_metrics_func(L, params, tparams, state, tstate, batch) ==
    GradsOfLoss(L, loss_func(L, params, tparams, state, tstate, batch))

\* td_error_func (lines 322-325, 469-472) on the terms r of the loss
TdErrorOfLoss(L, r) ==
    IF r.exc # "" THEN [exc |-> r.exc, td_error |-> <<>>]
    ELSE [exc |-> "", td_error |-> TdErrors(L, r)]

td_error_func(L, params, tparams, state, tstate, batch) ==
    TdErrorOfLoss(L, loss_func(L, params, tparams, state, tstate, batch))

(***************************************************************************)
(* The methods of a learner L over the heap fnS.  Each returns the         *)
(* exception raised ("" for a normal return), the heap and the learner.    *)
(***************************************************************************)
\* self._f.rng: every read draws a key and advances the generator
NextRng(fnS, o) == [fnS EXCEPT ![o].rng = @ + 1]

\* what grads_and_metrics returns or raises, r being the result of the
\* jitted function; self._f.rng has been read when the function is entered
Returned(fnS, L, r) ==
    [exc |-> r.exc, fn |-> NextRng(fnS, L.f), grads |-> r.grads,
     function_state |-> r.state_new, td_error |-> r.td_error,
     metrics |-> r.metrics]

\* grads_and_metrics on a target bundle read when the functions were created
grads_and_metrics_stale(fnS, L, batch) ==
    IF TargetAttrRaises(L)
    THEN [exc |-> "AttributeError", fn |-> fnS, grads |-> EmptyTree,
          function_state |-> 0, td_error |-> <<>>,
          metrics |-> NoResult("AttributeError").metrics]
    ELSE Returned(fnS, L,
                  grads_and_metrics_func(
                      L, fnS[L.f].params, target_params(InitFn, L),
                      fnS[L.f].function_state, target_function_state(InitFn, L), batch))

\* BaseTDLearning.grads_and_metrics (lines 137-170)
grads_and_metrics(fnS, L, batch) ==
    IF TargetAttrRaises(L)
    THEN [exc |-> "AttributeError", fn |-> fnS, grads |-> EmptyTree,
          function_state |-> 0, td_error |-> <<>>,
          metrics |-> NoResult("AttributeError").metrics]
    ELSE Returned(fnS, L,
                  grads_and_metrics_func(
                      L, fnS[L.f].params, target_params(fnS, L),
                      fnS[L.f].function_state, target_function_state(fnS, L), batch))

\* BaseTDLearning.td_error (lines 172-200)
td_error(fnS, L, batch) ==
    IF TargetAttrRaises(L)
    THEN [exc |-> "AttributeError", td_error |-> <<>>, fn |-> fnS]
    ELSE td_error_func(
             L, fnS[L.f].params, target_params(fnS, L),
             fnS[L.f].function_state, target_function_state(fnS, L), batch)
         @@ [fn |-> NextRng(fnS, L.f)]

\* a setter that assigns without comparing the tree structures
set_optimizer_state_unchecked(L, new_optimizer_state) ==
    [exc |-> "", L |-> [L EXCEPT !.optimizer_state = new_optimizer_state]]

\* the optimizer_state setter (lines 217-221)
set_optimizer_state(L, new_optimizer_state) ==
    IF TreeStructure(new_optimizer_state) # TreeStructure(L.optimizer_state)
    THEN [exc |-> "AttributeError", L |-> L]
    ELSE [exc |-> "", L |-> [L EXCEPT !.optimizer_state = new_optimizer_state]]

\* a setter that installs the new optimizer without comparing structures
set_optimizer_unchecked(fnS, L, new_optimizer) ==
    [exc |-> "", L |-> [L EXCEPT !.optimizer = new_optimizer]]

\* a setter that also installs the state the new optimizer initialises
set_optimizer_reinit(fnS, L, new_optimizer) ==
    IF TreeStructure(OptInit(new_optimizer, fnS[L.f].params))
         # TreeStructure(L.optimizer_state)
    THEN [exc |-> "AttributeError", L |-> L]
    ELSE [exc |-> "", L |-> [L EXCEPT !.optimizer = new_optimizer,
                                      !.optimizer_state =
                                          OptInit(new_optimizer, fnS[L.f].params)]]

\* the optimizer setter (lines 206-211)
set_optimizer(fnS, L, new_optimizer) ==
    IF TreeStructure(OptInit(new_optimizer, fnS[L.f].params))
         # TreeStructure(L.optimizer_state)
    THEN [exc |-> "AttributeError", L |-> L]
    ELSE [exc |-> "", L |-> [L EXCEPT !.optimizer = new_optimizer]]

\* line 133: self._f.function_state = function_state
WriteFunctionState(fnS, L, function_state) ==
    [fnS EXCEPT ![L.f].function_state = function_state]

\* an assignment of the new params to the target function as well
AssignStateAndParamsShared(fn1, L, grads, r) ==
    IF r.raised THEN [exc |-> "ValueError", fn |-> fn1, L |-> L, grads |-> Some(grads)]
    ELSE [exc |-> "",
          fn |-> [o \in DOMAIN fn1 |->
                    IF o = L.f \/ o = L.f_targ.objs[1]
                    THEN [fn1[o] EXCEPT !.params = r.params] ELSE fn1[o]],
          L |-> [L EXCEPT !.optimizer_state = r.opt_state], grads |-> Some(grads)]

\* lines 134-135, r being what _apply_grads_func returned or that it raised:
\* self.optimizer_state is assigned first, self._f.params second
AssignStateAndParams(fn1, L, grads, r) ==
    IF r.raised THEN [exc |-> "ValueError", fn |-> fn1, L |-> L, grads |-> Some(grads)]
    ELSE IF set_optimizer_state(L, r.opt_state).exc # ""
    THEN [exc |-> "AttributeError", fn |-> fn1, L |-> L, grads |-> Some(grads)]
    ELSE [exc |-> "", fn |-> [fn1 EXCEPT ![L.f].params = r.params],
          L |-> set_optimizer_state(L, r.opt_state).L, grads |-> Some(grads)]

\* BaseTDLearning.update_from_grads (lines 112-135): function_state is
\* written first, then the optimizer step runs, then optimizer_state and
\* params are assigned in that order
update_from_grads(fnS, L, grads, function_state) ==
    AssignStateAndParams(
        WriteFunctionState(fnS, L, function_state), L, grads,
        apply_grads_func(L.optimizer, L.optimizer_state, fnS[L.f].params, grads))

\* a check that asks for NaN in all leaves instead of any
HasNaNInAllLeaves(grads) == \A l \in DOMAIN grads : IsNaN(grads[l])

\* the check of update (line 107)
HasNaN(grads) == \E l \in DOMAIN grads : IsNaN(grads[l])

\* an update that applies the gradients before it checks them
ApplyAndCheck(L, g) ==
    IF g.exc # "" THEN [exc |-> g.exc, fn |-> g.fn, L |-> L, grads |-> None]
    ELSE IF HasNaN(g.grads)
    THEN [update_from_grads(g.fn, L, g.grads, g.function_state)
            EXCEPT !.exc = "RuntimeError"]
    ELSE update_from_grads(g.fn, L, g.grads, g.function_state)

\* an update that hands update_from_grads the function state it read
\* before the forward pass instead of the new one
CheckAndApplyOldState(L, g) ==
    IF g.exc # "" THEN [exc |-> g.exc, fn |-> g.fn, L |-> L, grads |-> None]
    ELSE IF HasNaN(g.grads)
    THEN [exc |-> "RuntimeError", fn |-> g.fn, L |-> L, grads |-> Some(g.grads)]
    ELSE update_from_grads(g.fn, L, g.grads, g.fn[L.f].function_state)

\* lines 107-110 of update, g being what grads_and_metrics returned
CheckAndApply(L, g) ==
    IF g.exc # "" THEN [exc |-> g.exc, fn |-> g.fn, L |-> L, grads |-> None]
    ELSE IF HasNaN(g.grads)
    THEN [exc |-> "RuntimeError", fn |-> g.fn, L |-> L, grads |-> Some(g.grads)]
    ELSE update_from_grads(g.fn, L, g.grads, g.function_state)

\* line 110 of update with return_td_error=True: u is how lines 107-109
\* ended, g what grads_and_metrics returned
Return(u, g) ==
    [exc |-> u.exc, fn |-> u.fn, L |-> u.L, grads |-> u.grads,
     ret |-> IF u.exc = "" THEN Some([metrics |-> g.metrics, td_error |-> g.td_error])
             ELSE None]

UpdateOn(L, g) == Return(CheckAndApply(L, g), g)

\* BaseTDLearning.update (lines 79-110)
update(fnS, L, batch) == UpdateOn(L, grads_and_metrics(fnS, L, batch))

\* ParametrizedFunction.soft_update(source, tau): params move toward the
\* source's by tau, function_state is replaced by the source's
soft_update(fnS, target, source, tau) ==
    [fnS EXCEPT ![target].params =
                    [l \in DOMAIN @ |->
                        FAdd(FMul(FSub(One, tau), @[l]), FMul(tau, fnS[source].params[l]))],
                ![target].function_state = fnS[source].function_state]

(***************************************************************************)
(* Inputs.                                                                 *)
(***************************************************************************)
\* the learner objects; td2 is built only beside td, as the second learner
\* of the TD3 example
Learners == {"td", "td2"}
Solo == {"td"}

\* the constructor calls made
CtorCalls ==
    { \* calls that build a learner
      Args("V", "v", NoTarg, None, None, None, "None"),
      Args("V", "v", OneTarg("v_targ"), None, Some(Sgd(Rat(1, 2))), Some("mse"),
           "regularizer"),
      Args("Q", "q", NoTarg, None, None, Some("mse"), "None"),
      Args("Q", "q", OneTarg("q_targ"), None, Some(Momentum(Rat(1, 2))), Some("mse"),
           "None"),
      Args("Q", "q", ListTarg(<<"q_targ", "q_targ">>), None, None, None, "None"),
      Args("Q", "q", ListTarg(<<"q_targ", "v_targ">>), None, None, None, "None"),
      Args("QPi", "q", OneTarg("q_targ"), Some("pi"), Some(Adam(Rat(1, 50))), None,
           "regularizer"),
      Args("QPi", "q", NoTarg, None, None, Some("mse"), "None"),
      \* calls with a wrong function kind or regularizer
      Args("V", "q", NoTarg, None, None, None, "None"),
      Args("V", "v", OneTarg("q_targ"), None, None, None, "None"),
      Args("V", "v", ListTarg(<<"v_targ">>), None, None, None, "None"),
      Args("V", "v", OneTarg("v_targ"), None, None, None, "other"),
      Args("Q", "v", NoTarg, None, None, None, "None"),
      Args("Q", "q", OneTarg("v_targ"), None, None, None, "None"),
      Args("Q", "q", OneTarg("pi"), None, None, None, "regularizer"),
      Args("Q", "q", OneTarg("q_targ"), None, None, None, "other"),
      Args("QPi", "q", OneTarg("q_targ"), Some("v"), None, None, "None"),
      Args("QPi", "pi", NoTarg, Some("pi"), None, None, "None"),
      Args("QPi", "q", OneTarg("v_targ"), Some("pi"), None, None, "None"),
      Args("QPi", "q", ListTarg(<<"pi">>), Some("pi"), None, None, "None"),
      Args("QPi", "q", NoTarg, Some("pi"), None, None, "other") }

\* the batches of well-formed shape with weights 1 or above: those a
\* learner is trained on through its whole life
TrainingBatches == {"plain", "inf", "infzero", "nan"}

\* the batches handed to update, to grads_and_metrics and to td_error when
\* the evaluation of the loss is followed
UpdateBatches == {"plain", "short"}
GradsBatches == {"edge", "extreme", "ragged"}
TdErrorBatches == {"plain", "column"}

\* optimizers assigned to learner.optimizer
NewOptimizers == {Sgd(Rat(1, 4)), Adam(Rat(1, 50))}

\* values assigned to learner.optimizer_state
NewOptimizerStates ==
    { [shape |-> "empty", count |-> 0, mu |-> EmptyTree, nu |-> EmptyTree],
      [shape |-> "trace", count |-> 0, mu |-> Tree(One, One), nu |-> EmptyTree],
      [shape |-> "adam", count |-> 7, mu |-> Tree(One, One), nu |-> Tree(One, One)],
      [shape |-> "adam", count |-> 7, mu |-> [l \in {"w"} |-> One],
       nu |-> [l \in {"w"} |-> One]] }

\* gradients and function states handed to update_from_grads by a caller
\* that computed them elsewhere
ExternalGrads == {Tree(One, Num(-1)), [l \in {"w"} |-> One]}
ExternalFunctionStates == {7}

\* the rates of soft_update and of hard_update
Taus == {Rat(1, 2), One}

(***************************************************************************)
(* State.                                                                  *)
(*   fn       the function objects                                         *)
(*   learner  the TD learners                                              *)
(*   pending  what the last grads_and_metrics call returned to its caller, *)
(*            with the state it was called in                              *)
(*   last     the last operation: its name, learner, exception, batch, the *)
(*            gradients it computed or was given, whether it applied the   *)
(*            values of the directly preceding grads_and_metrics call, the *)
(*            value assigned, and the state before it                      *)
(*   ret      what the last call returned to its caller, if it returns     *)
(*            metrics or TD errors                                         *)
(*   steps    the number of operations made after construction             *)
(*   draw     one evaluation of loss_func seen as a process: the learner   *)
(*            class, the branch, the seed key rng, the position in the     *)
(*            body and the key each sub-operation has been handed          *)
(***************************************************************************)
VARIABLES fn, learner, pending, last, ret, steps, draw
vars == <<fn, learner, pending, last, ret, steps, draw>>

\* no evaluation of loss_func is being followed
Idle ==
    [cls |-> "", stochastic |-> FALSE, reg |-> FALSE, rng |-> <<>>, pc |-> 0,
     handed |-> <<>>]

NoPending ==
    [valid |-> FALSE, fresh |-> FALSE, l |-> "td", batch |-> "", grads |-> EmptyTree,
     function_state |-> 0, fn |-> InitFn, learner |-> [l \in Learners |-> NoLearner]]

Last(op, l, exc, batch, grads, split, arg) ==
    [op |-> op, l |-> l, exc |-> exc, batch |-> batch, grads |-> grads,
     split |-> split, arg |-> arg, fn |-> fn, learner |-> learner]

Init ==
    /\ fn = InitFn
    /\ learner = [l \in Learners |-> NoLearner]
    /\ pending = NoPending
    /\ last = [op |-> "", l |-> "td", exc |-> "", batch |-> "", grads |-> None,
               split |-> FALSE, arg |-> None, fn |-> InitFn,
               learner |-> [l \in Learners |-> NoLearner]]
    /\ ret = None
    /\ steps = 0
    /\ draw = Idle

Ready(l) == learner[l].status = "ready" /\ steps < MaxSteps
Stale == [pending EXCEPT !.fresh = FALSE]

Construct(l, a) ==
    /\ learner[l].status = "none"
    /\ learner' = [learner EXCEPT ![l] = New(fn, a)]
    /\ last' = Last("__init__", l, learner'[l].exc, "", None, FALSE, None)
    /\ ret' = None
    /\ UNCHANGED <<fn, pending, steps, draw>>

\* the state after a call that returned or raised r
Called(op, l, b, r, split) ==
    /\ fn' = r.fn
    /\ learner' = [learner EXCEPT ![l] = r.L]
    /\ last' = Last(op, l, r.exc, b, r.grads, split, None)
    /\ pending' = Stale
    /\ steps' = steps + 1
    /\ UNCHANGED draw

\* the state after update returned or raised r
Updated(l, b, r) ==
    /\ Called("update", l, b, r, FALSE)
    /\ ret' = r.ret

Update(l, b) ==
    /\ Ready(l)
    /\ Updated(l, b, update(fn, learner[l], TransitionBatch(b)))

\* the caller keeps what grads_and_metrics returned
Kept(l, b, g) ==
    /\ fn' = g.fn
    /\ pending' = IF g.exc # "" THEN Stale
                  ELSE [valid |-> TRUE, fresh |-> TRUE, l |-> l, batch |-> b,
                        grads |-> g.grads, function_state |-> g.function_state,
                        fn |-> fn, learner |-> learner]
    /\ last' = Last("grads_and_metrics", l, g.exc, b,
                    IF g.exc = "" THEN Some(g.grads) ELSE None, FALSE, None)
    /\ ret' = IF g.exc # "" THEN None
              ELSE Some([metrics |-> g.metrics, td_error |-> g.td_error])
    /\ UNCHANGED <<learner, draw>>
    /\ steps' = steps + 1

GradsAndMetrics(l, b) ==
    /\ Ready(l)
    /\ Kept(l, b, grads_and_metrics(fn, learner[l], TransitionBatch(b)))

\* update_from_grads with the values the last grads_and_metrics returned
UpdateFromGradsSplit(l) ==
    /\ Ready(l)
    /\ pending.valid /\ pending.l = l
    /\ Called("update_from_grads", l, pending.batch,
              update_from_grads(fn, learner[l], pending.grads, pending.function_state),
              pending.fresh)
    /\ ret' = None

\* update_from_grads with values computed elsewhere
UpdateFromGrads(l, grads, function_state) ==
    /\ Ready(l)
    /\ Called("update_from_grads", l, "",
              update_from_grads(fn, learner[l], grads, function_state), FALSE)
    /\ ret' = None

\* the state after td_error returned or raised r
Evaluated(l, b, r) ==
    /\ fn' = r.fn
    /\ last' = Last("td_error", l, r.exc, b, None, FALSE, None)
    /\ ret' = IF r.exc # "" THEN None
              ELSE Some([metrics |-> NoResult("").metrics, td_error |-> r.td_error])
    /\ pending' = Stale
    /\ steps' = steps + 1
    /\ UNCHANGED draw
    /\ UNCHANGED learner

TdError(l, b) ==
    /\ Ready(l)
    /\ Evaluated(l, b, td_error(fn, learner[l], TransitionBatch(b)))

\* the state after an assignment to a property of the learner
Assigned(op, l, value, r) ==
    /\ learner' = [learner EXCEPT ![l] = r.L]
    /\ last' = Last(op, l, r.exc, "", None, FALSE, Some(value))
    /\ ret' = None
    /\ pending' = Stale
    /\ steps' = steps + 1
    /\ UNCHANGED draw
    /\ UNCHANGED fn

SetOptimizer(l, opt) ==
    /\ Ready(l)
    /\ Assigned("optimizer", l, opt, set_optimizer(fn, learner[l], opt))

SetOptimizerState(l, st) ==
    /\ Ready(l)
    /\ Assigned("optimizer_state", l, st, set_optimizer_state(learner[l], st))

\* the training loop's "sync copies": a target copy follows the online
\* function of a learner
SoftUpdate(l, target, tau) ==
    /\ Ready(l)
    /\ target # learner[l].f
    /\ KindOf(target) = KindOf(learner[l].f)
    /\ fn' = soft_update(fn, target, learner[l].f, tau)
    /\ last' = Last("soft_update", l, "", "", None, FALSE, Some(target))
    /\ ret' = None
    /\ pending' = Stale
    /\ steps' = steps + 1
    /\ UNCHANGED draw
    /\ UNCHANGED learner

Next ==
    \/ \E l \in Solo, a \in CtorCalls : Construct(l, a)
    \/ \E l \in Solo, b \in TrainingBatches : Update(l, b)
    \/ \E l \in Solo, b \in TrainingBatches : GradsAndMetrics(l, b)
    \/ \E l \in Solo : UpdateFromGradsSplit(l)
    \/ \E l \in Solo, g \in ExternalGrads, fs \in ExternalFunctionStates :
            UpdateFromGrads(l, g, fs)
    \/ \E l \in Solo, o \in NewOptimizers : SetOptimizer(l, o)
    \/ \E l \in Solo, st \in NewOptimizerStates : SetOptimizerState(l, st)
    \/ \E l \in Solo, t \in ObjIds, tau \in Taus : SoftUpdate(l, t, tau)

Spec == Init /\ [][Next]_vars

(***************************************************************************)
(* The evaluation of the loss: one learner of each class on batches with   *)
(* weights on both sides of [0.1, 10] and with arrays of differing shape.  *)
(***************************************************************************)
EvalCalls ==
    { Args("V", "v", OneTarg("v_targ"), None, Some(Sgd(Rat(1, 2))), Some("mse"),
           "regularizer"),
      Args("Q", "q", NoTarg, None, None, Some("mse"), "None"),
      Args("QPi", "q", OneTarg("q_targ"), Some("pi"), Some(Adam(Rat(1, 50))), None,
           "regularizer") }

NextEval ==
    \/ \E l \in Solo, a \in EvalCalls : Construct(l, a)
    \/ \E l \in Solo, b \in UpdateBatches : Update(l, b)
    \/ \E l \in Solo, b \in GradsBatches : GradsAndMetrics(l, b)
    \/ \E l \in Solo, b \in TdErrorBatches : TdError(l, b)
    \/ \E l \in Solo : UpdateFromGradsSplit(l)
    \/ \E l \in Solo, t \in ObjIds, tau \in Taus : SoftUpdate(l, t, tau)

SpecEval == Init /\ [][NextEval]_vars

(***************************************************************************)
(* Two learners that share their target function and target policy, as    *)
(* qlearning1 and qlearning2 of the TD3 example do.                        *)
(***************************************************************************)
TD3Call(l) ==
    IF l = "td"
    THEN Args("QPi", "q", OneTarg("q_targ"), Some("pi"), Some(Adam(Rat(1, 50))),
              Some("mse"), "regularizer")
    ELSE Args("QPi", "q2", OneTarg("q_targ"), Some("pi"), Some(Adam(Rat(1, 50))),
              Some("mse"), "None")

TD3Batches == {"plain", "nan", "ragged"}

NextTD3 ==
    \/ \E l \in Learners : Construct(l, TD3Call(l))
    \/ \E l \in Learners, b \in TD3Batches : Update(l, b)
    \/ \E l \in Learners, b \in TD3Batches : GradsAndMetrics(l, b)
    \/ \E l \in Learners : UpdateFromGradsSplit(l)
    \/ \E l \in Learners, g \in ExternalGrads, fs \in ExternalFunctionStates :
            UpdateFromGrads(l, g, fs)
    \/ \E l \in Learners, t \in {"q_targ"}, tau \in Taus : SoftUpdate(l, t, tau)

SpecTD3 == Init /\ [][NextTD3]_vars

(***************************************************************************)
(* The random keys inside one evaluation of loss_func.  A key is the path  *)
(* of splits that leads to it: rngs = hk.PRNGSequence(rng) hands out       *)
(* rng.1, rng.2, ... on successive next(rngs).                             *)
(***************************************************************************)
Seeds == {<<0>>, <<1>>, <<2>>}

\* the k-th key of hk.PRNGSequence(rng)
NextKey(rng, k) == Append(rng, k)

\* the sub-operations of loss_func that take a key, in program order
\* (V: lines 254-296, Q: lines 399-443)
SubOperations(cls, stochastic, reg) ==
    <<"observation_preprocessor">>
        \o (IF cls = "Q" THEN <<"action_preprocessor">> ELSE <<>>)
        \o (IF reg THEN <<"batch_eval">> ELSE <<>>)
        \o <<"function", "target_func">>
        \o (IF stochastic
            THEN <<"postprocess_variate", "postprocess_variate_G", "function_targ",
                   "postprocess_variate_targ">>
            ELSE <<"function_targ">>)

\* target_func is handed rng itself in the distributional branch (lines 270,
\* 417) and next(rngs) in the scalar branch (lines 290, 437); every other
\* sub-operation is handed next(rngs)
HandedRng(op, stochastic) == op = "target_func" /\ stochastic

\* the number of keys drawn from rngs so far
Drawn(d) ==
    Cardinality({i \in DOMAIN d.handed : ~HandedRng(d.handed[i].op, d.stochastic)})

Running ==
    draw.pc > 0 /\ draw.pc <= Len(SubOperations(draw.cls, draw.stochastic, draw.reg))

Current == SubOperations(draw.cls, draw.stochastic, draw.reg)[draw.pc]

\* loss_func is entered with the seed key rng
Evaluate(cls, stochastic, reg, rng) ==
    /\ draw = Idle
    /\ draw' = [cls |-> cls, stochastic |-> stochastic, reg |-> reg, rng |-> rng,
                pc |-> 1, handed |-> <<>>]
    /\ UNCHANGED <<fn, learner, pending, last, ret, steps>>

\* the sub-operation at the current position is called with next(rngs)
HandNext ==
    /\ Running /\ ~HandedRng(Current, draw.stochastic)
    /\ draw' = [draw EXCEPT
                  !.handed = Append(@, [op |-> Current,
                                        key |-> NextKey(draw.rng, Drawn(draw) + 1)]),
                  !.pc = @ + 1]
    /\ UNCHANGED <<fn, learner, pending, last, ret, steps>>

\* the sub-operation at the current position is called with rng
HandRng ==
    /\ Running /\ HandedRng(Current, draw.stochastic)
    /\ draw' = [draw EXCEPT
                  !.handed = Append(@, [op |-> Current, key |-> draw.rng]),
                  !.pc = @ + 1]
    /\ UNCHANGED <<fn, learner, pending, last, ret, steps>>

NextKeys ==
    \/ \E cls \in {"V", "Q"}, stochastic \in BOOLEAN, reg \in BOOLEAN, rng \in Seeds :
            Evaluate(cls, stochastic, reg, rng)
    \/ HandNext
    \/ HandRng

SpecKeys == Init /\ [][NextKeys]_vars

(***************************************************************************)
(* Properties.                                                             *)
(***************************************************************************)
\* what an update writes: the online function's params and function_state
\* and the learner's optimizer_state
Written(fnS, L) ==
    [params |-> fnS[L.f].params, function_state |-> fnS[L.f].function_state,
     optimizer_state |-> L.optimizer_state]

Now == Written(fn, learner[last.l])
Before == Written(last.fn, last.learner[last.l])

\* the gradients the last update computed
ComputedGrads == Get(last.grads)
SomeLeafNaN(g) == \E l \in DOMAIN g : g[l].k = "nan"
SomeLeafNonFinite(g) == \E l \in DOMAIN g : g[l].k \in {"nan", "pinf", "ninf"}

\* C1, as stated: whenever the gradients update computed hold a NaN, a +Inf
\* or a -Inf in some leaf, update raised an error
C1_NonFiniteGradsRaise ==
    (last.op = "update" /\ ~IsNone(last.grads) /\ SomeLeafNonFinite(ComputedGrads))
        => last.exc # ""

\* C1, amended: whenever the gradients update computed hold a NaN in some
\* leaf, update raised RuntimeError
C1_NaNGradsRaise ==
    (last.op = "update" /\ ~IsNone(last.grads) /\ SomeLeafNaN(ComputedGrads))
        => last.exc = "RuntimeError"

\* an update raised on gradients with a NaN in one leaf and -Inf in another
C1_Witness ==
    /\ last.op = "update" /\ ~IsNone(last.grads)
    /\ ComputedGrads["w"].k = "nan" /\ ComputedGrads["b"].k = "ninf"
    /\ last.exc = "RuntimeError"

\* C2: when update fails on NaN gradients, the online params and
\* function_state and the learner's optimizer_state are as before the call
C2_FailedUpdateWritesNothing ==
    (last.op = "update" /\ last.exc = "RuntimeError") => Now = Before

\* a second update failed on NaN gradients after a first one had succeeded
C2_Witness ==
    /\ last.op = "update" /\ last.exc = "RuntimeError"
    /\ SomeLeafNaN(ComputedGrads)
    /\ steps = 2
    /\ Before.params # InitFn[learner[last.l].f].params

\* C3: update_from_grads applied to what the directly preceding
\* grads_and_metrics(batch) returned, the gradients being free of NaN, leaves
\* the online params, function_state and rng and the optimizer_state as one
\* update(batch) from the state before grads_and_metrics leaves them, and
\* returns or raises as it does
C3_SplitEqualsFused ==
    (last.op = "update_from_grads" /\ last.split /\ ~SomeLeafNaN(ComputedGrads))
        => /\ last.exc = update(pending.fn, pending.learner[last.l],
                                TransitionBatch(pending.batch)).exc
           /\ fn = update(pending.fn, pending.learner[last.l],
                          TransitionBatch(pending.batch)).fn
           /\ learner[last.l] = update(pending.fn, pending.learner[last.l],
                                       TransitionBatch(pending.batch)).L

\* the split path has run on finite gradients and moved the online params,
\* the function_state and the optimizer_state
C3_Witness ==
    /\ last.op = "update_from_grads" /\ last.split /\ last.exc = ""
    /\ \A l \in DOMAIN ComputedGrads : ComputedGrads[l].k = "fin"
    /\ Now.params # Written(pending.fn, pending.learner[last.l]).params
    /\ Now.function_state # Written(pending.fn, pending.learner[last.l]).function_state
    /\ Now.optimizer_state # Written(pending.fn, pending.learner[last.l]).optimizer_state

\* C4, as stated: after update or update_from_grads raised, none of the
\* online function_state, optimizer_state and params has changed (and after
\* a normal return all three hold their new values)
C4_AllOrNothing ==
    (last.op \in {"update", "update_from_grads"} /\ last.exc # "") => Now = Before

\* C5: an assignment to optimizer_state of a value whose tree structure
\* differs from the current one's raises and changes nothing; one of the
\* same structure replaces optimizer_state and nothing else
C5_OptimizerStateSetter ==
    last.op = "optimizer_state" =>
        /\ fn = last.fn
        /\ IF TreeStructure(Get(last.arg))
                # TreeStructure(last.learner[last.l].optimizer_state)
           THEN last.exc = "AttributeError" /\ learner = last.learner
           ELSE /\ last.exc = ""
                /\ learner[last.l] =
                       [last.learner[last.l] EXCEPT !.optimizer_state = Get(last.arg)]

\* an assignment was accepted and changed the optimizer_state
C5_Witness ==
    /\ last.op = "optimizer_state" /\ last.exc = ""
    /\ Now.optimizer_state # Before.optimizer_state

\* C6: an assignment to optimizer raises and changes nothing when the state
\* the new optimizer initialises for the current online params differs in
\* structure from the current optimizer_state; otherwise it replaces the
\* optimizer and keeps the optimizer_state
C6_OptimizerSetter ==
    last.op = "optimizer" =>
        /\ fn = last.fn
        /\ IF TreeStructure(OptInit(Get(last.arg),
                                    last.fn[last.learner[last.l].f].params))
                # TreeStructure(last.learner[last.l].optimizer_state)
           THEN last.exc = "AttributeError" /\ learner = last.learner
           ELSE /\ last.exc = ""
                /\ learner[last.l] =
                       [last.learner[last.l] EXCEPT !.optimizer = Get(last.arg)]

\* an optimizer was accepted over an optimizer_state that an update had
\* moved away from its initial value
C6_Witness ==
    /\ last.op = "optimizer" /\ last.exc = ""
    /\ learner[last.l].optimizer # last.learner[last.l].optimizer
    /\ Now.optimizer_state
         # OptInit(learner[last.l].optimizer, fn[learner[last.l].f].params)

\* the learners that exist
Built == {l \in Learners : learner[l].status = "ready"}
Targets(L) == {L.f_targ.objs[i] : i \in DOMAIN L.f_targ.objs}

\* C7: a learner built without a target function reads the online
\* function's current params and function_state as its target entry
C7_SelfBootstrap ==
    \A l \in Built :
        learner[l].args.f_targ.form = "none" =>
            /\ target_params(fn, learner[l])[TargKey(learner[l])]
                 = Some(fn[learner[l].f].params)
            /\ target_function_state(fn, learner[l])[TargKey(learner[l])]
                 = Some(fn[learner[l].f].function_state)

\* a learner built without a target function has made two updates that
\* moved the online params
C7_Witness ==
    /\ last.l \in Built /\ learner[last.l].args.f_targ.form = "none"
    /\ last.op = "update" /\ last.exc = "" /\ steps = 2
    /\ Now.params # Before.params
    /\ Before.params # InitFn[learner[last.l].f].params

\* C8, as stated: the function a learner uses as target is never the online
\* function object
C8_TargetNeverOnline ==
    \A l \in Built : learner[l].f \notin Targets(learner[l])

\* C8, amended: a learner built with target functions that are objects other
\* than the online function keeps exactly those as targets, and an update or
\* update_from_grads of it leaves their params and function_state unchanged;
\* a learner built without a target uses the online function object itself
C8_SuppliedTargetNeverOnline ==
    \A l \in Built :
        IF learner[l].args.f_targ.form = "none"
        THEN Targets(learner[l]) = {learner[l].f}
        ELSE learner[l].args.f \notin Targets([f_targ |-> learner[l].args.f_targ]) =>
                /\ learner[l].f_targ = learner[l].args.f_targ
                /\ learner[l].f \notin Targets(learner[l])
                /\ (last.l = l /\ last.op \in {"update", "update_from_grads"}) =>
                       \A t \in Targets(learner[l]) : fn[t] = last.fn[t]

\* a learner built with a separate target has committed new online params
C8_Witness ==
    /\ last.l \in Built /\ learner[last.l].args.f_targ.form = "single"
    /\ learner[last.l].f \notin Targets(learner[last.l])
    /\ last.op = "update" /\ last.exc = ""
    /\ Now.params # Before.params

\* the learners whose target bundle can be read
WithBundle == {l \in Built : ~TargetAttrRaises(learner[l])}

\* C9, as stated: without a policy regularizer the bundle has no regularizer
\* key
C9_NoRegularizerKey ==
    \A l \in WithBundle :
        learner[l].policy_regularizer = "None" =>
            /\ DOMAIN target_params(fn, learner[l]) \cap {"reg", "reg_hparams"} = {}
            /\ "reg" \notin DOMAIN target_function_state(fn, learner[l])

\* C9, amended: the bundle always has the keys reg and reg_hparams (the
\* state bundle: reg).  They hold None without a policy regularizer, and the
\* regularizer's function params, its hyperparams and its function state
\* with one.  A learner with a target policy also has the key pi_targ, which
\* holds that policy's params and state, or None when pi_targ is None.
C9_RegularizerEntries ==
    \A l \in WithBundle :
        LET L == learner[l]
            tp == target_params(fn, L)
            ts == target_function_state(fn, L)
            own == {OnlineKey(L), TargKey(L)}
            pol == IF L.cls = "QPi" THEN {"pi_targ"} ELSE {}
        IN /\ DOMAIN tp = own \cup pol \cup {"reg", "reg_hparams"}
           /\ DOMAIN ts = own \cup pol \cup {"reg"}
           /\ IF L.policy_regularizer = "None"
              THEN tp["reg"] = None /\ tp["reg_hparams"] = None /\ ts["reg"] = None
              ELSE /\ tp["reg"] = Some(fn[RegF].params)
                   /\ tp["reg_hparams"] = Some(RegHyperparams)
                   /\ ts["reg"] = Some(fn[RegF].function_state)
           /\ L.cls = "QPi" =>
                IF IsNone(L.pi_targ)
                THEN tp["pi_targ"] = None /\ ts["pi_targ"] = None
                ELSE /\ tp["pi_targ"] = Some(fn[Get(L.pi_targ)].params)
                     /\ ts["pi_targ"] = Some(fn[Get(L.pi_targ)].function_state)

\* a learner with a regularizer and a target policy has computed gradients
\* from its bundle
C9_Witness ==
    /\ last.l \in WithBundle
    /\ learner[last.l].policy_regularizer = "regularizer"
    /\ ~IsNone(learner[last.l].pi_targ)
    /\ last.op = "grads_and_metrics" /\ last.exc = ""

\* a wrong kind among the arguments of a constructor call: the online
\* function, a target function given singly or in a list, the target policy,
\* the policy regularizer
RightKind(cls, o) == IF cls = "V" THEN is_vfunction(o) ELSE is_qfunction(o)
WrongArgument(a) ==
    \/ ~RightKind(a.cls, a.f)
    \/ \E i \in DOMAIN a.f_targ.objs : ~RightKind(a.cls, a.f_targ.objs[i])
    \/ a.cls = "QPi" /\ ~IsNone(a.pi_targ) /\ ~is_policy(Get(a.pi_targ))
    \/ a.policy_regularizer \notin {"None", "regularizer"}

\* C10, as stated: a constructor call with a wrong argument raises TypeError
\* and leaves no learner with an initialised optimizer_state
C10_WrongArgumentRaises ==
    \A l \in Learners :
        (learner[l].status # "none" /\ WrongArgument(learner[l].args)) =>
            /\ learner[l].status = "failed"
            /\ learner[l].exc = "TypeError"
            /\ learner[l].optimizer_state = NoOptState

\* the learner of the last call as it was when the call was made, and the
\* terms of the loss on the batch of the call in the state it was made in
Caller == last.learner[last.l]
TermsBefore ==
    loss_func(Caller, last.fn[Caller.f].params, target_params(last.fn, Caller),
              last.fn[Caller.f].function_state,
              target_function_state(last.fn, Caller), TransitionBatch(last.batch))

\* C11: with the mean-squared-error loss, every entry of the TD error that
\* td_error(batch) or update(batch, return_td_error=True) returns equals
\* the target (regularizer term included) minus the prediction
C11_MseTdError ==
    (last.op \in {"update", "td_error"} /\ ~IsNone(ret)
        /\ Caller.loss_function = "mse")
        => \A i \in DOMAIN Get(ret).td_error :
              Get(ret).td_error[i] = FSub(TermsBefore.G[i], TermsBefore.V[i])

\* td_error returned finite, nonzero TD errors for a learner with the
\* mean-squared-error loss and a regularizer, on weights other than 1
C11_Witness ==
    /\ last.op = "td_error" /\ ~IsNone(ret)
    /\ Caller.loss_function = "mse" /\ Caller.policy_regularizer = "regularizer"
    /\ last.batch = "plain"
    /\ \A i \in DOMAIN Get(ret).td_error :
          Get(ret).td_error[i].k = "fin" /\ Get(ret).td_error[i] # Zero

\* a weight brought into [0.1, 10]
Clamped(w) ==
    IF w.k = "fin" /\ w.n * 10 < w.d THEN Rat(1, 10)
    ELSE IF w.k = "fin" /\ w.n > 10 * w.d THEN Num(10)
    ELSE w

\* two different batches of well-formed shape that agree in every field but
\* W and whose weights agree once brought into [0.1, 10]
SameButWeights(b1, b2) ==
    /\ b1 # b2 /\ b1 \notin Misshapen /\ b2 \notin Misshapen
    /\ \A f \in {"S", "A", "Rn", "In", "S_next", "A_next"} :
          TransitionBatch(b1)[f] = TransitionBatch(b2)[f]
    /\ \A i \in 1..BatchSize :
          Clamped(Field(TransitionBatch(b1), "W")[i])
            = Clamped(Field(TransitionBatch(b2), "W")[i])

\* C12: the gradients, the loss and the weighted td_error metric that
\* grads_and_metrics returned are those it returns, from the same state, for
\* every batch that differs only in weights that agree once clamped to
\* [0.1, 10]
C12_ClippedWeights ==
    (last.op = "grads_and_metrics" /\ ~IsNone(ret))
        => \A b2 \in BatchNames :
              SameButWeights(last.batch, b2)
                => /\ grads_and_metrics(last.fn, Caller, TransitionBatch(b2)).grads
                        = ComputedGrads
                   /\ grads_and_metrics(last.fn, Caller, TransitionBatch(b2)).metrics.loss
                        = Get(ret).metrics.loss
                   /\ grads_and_metrics(last.fn, Caller,
                                        TransitionBatch(b2)).metrics.td_error
                        = Get(ret).metrics.td_error

\* grads_and_metrics returned nonzero gradients and td_error metric for the
\* batch with the weights 1000 and 0.0001, the batch with the weights 10 and
\* 0.1 being its like
C12_Witness ==
    /\ last.op = "grads_and_metrics" /\ ~IsNone(ret)
    /\ last.batch = "extreme" /\ SameButWeights("extreme", "edge")
    /\ ComputedGrads["w"].k = "fin" /\ ComputedGrads["w"] # Zero
    /\ Get(ret).metrics.td_error.k = "fin" /\ Get(ret).metrics.td_error # Zero
    /\ Get(ret).metrics.loss.w[1] = Num(10)

\* the objects a learner reads its target bundle from, besides the online
\* function
BundleObjects(L) ==
    Targets(L)
        \cup (IF IsNone(L.pi_targ) THEN {} ELSE {Get(L.pi_targ)})
        \cup (IF L.policy_regularizer = "regularizer" THEN {RegF} ELSE {})

\* what the jitted gradient function gives for the batch of the last call on
\* the online function as it was at the call and the bundle read from fnT
FromBundle(fnT) ==
    grads_and_metrics_func(
        Caller, last.fn[Caller.f].params, target_params(fnT, Caller),
        last.fn[Caller.f].function_state, target_function_state(fnT, Caller),
        TransitionBatch(last.batch))

\* C13: the gradients of update and grads_and_metrics and the TD errors of
\* td_error are computed from the params and function_state that the target
\* function, the target policy and the regularizer have at the moment of the
\* call, whatever synchronisations preceded it
C13_FreshBundle ==
    /\ (last.op \in {"update", "grads_and_metrics"} /\ ~IsNone(last.grads))
          => ComputedGrads = FromBundle(last.fn).grads
    /\ (last.op = "td_error" /\ ~IsNone(ret))
          => Get(ret).td_error = FromBundle(last.fn).td_error

\* an update ran after a synchronisation had moved the params of its target
\* function, and the gradients it computed are not those the target's
\* earlier params give
C13_Witness ==
    /\ last.op = "update" /\ last.exc = ""
    /\ Caller.f_targ.form = "single" /\ Caller.f_targ.objs[1] # Caller.f
    /\ last.fn[Caller.f_targ.objs[1]].params # InitFn[Caller.f_targ.objs[1]].params
    /\ ComputedGrads # FromBundle(InitFn).grads

\* the training-mode forward pass of the online function, as it was when the
\* last call was made, on the current observations of the batch of the call
TrainingPass ==
    Forward(last.fn[Caller.f].params, last.fn[Caller.f].function_state,
            Features(Caller.cls, Field(TransitionBatch(last.batch), "S"),
                     Field(TransitionBatch(last.batch), "A")), TRUE)

\* C14: after an update that returned, the online function_state is the
\* state returned by the one training-mode forward pass of the online
\* function, and the function_state of every other function of the target
\* bundle is as before the call
C14_TrainingStateOnly ==
    (last.op = "update" /\ last.exc = "")
        => /\ fn[Caller.f].function_state = TrainingPass.state
           /\ \A o \in BundleObjects(Caller) \ {Caller.f} :
                 fn[o].function_state = last.fn[o].function_state

\* a second update returned for a learner whose target function is another
\* object with another function_state than the online function
C14_Witness ==
    /\ last.op = "update" /\ last.exc = ""
    /\ Caller.f_targ.form = "single" /\ Caller.f_targ.objs[1] # Caller.f
    /\ last.fn[Caller.f].function_state > 0
    /\ fn[Caller.f].function_state = last.fn[Caller.f].function_state + 1
    /\ fn[Caller.f_targ.objs[1]].function_state # fn[Caller.f].function_state

\* the shapes of target, prediction, target-of-target and clipped weights in
\* the last call
ShapesBefore == TracedShapes(Caller, TransitionBatch(last.batch))

\* one of the four arrays differs from another in shape, or is not of rank 1
Mismatch ==
    \/ Cardinality({ShapesBefore[a] : a \in {"G", "V", "V_targ", "W"}}) > 1
    \/ \E a \in {"G", "V", "V_targ", "W"} : Len(ShapesBefore[a]) # 1

StructureOfInit(l) ==
    TreeStructure(learner[l].optimizer_state)
        = TreeStructure(OptInit(learner[l].optimizer, fn[learner[l].f].params))

\* a step keeps the tree structure of the optimizer_state of a built learner
StructureKept ==
    \A l \in Learners :
        learner[l].status = "ready"
            => TreeStructure(learner'[l].optimizer_state)
                 = TreeStructure(learner[l].optimizer_state)

\* C16: after any sequence of update, update_from_grads and assignments to
\* optimizer and optimizer_state, accepted or rejected, the optimizer_state
\* of a learner has the tree structure of optimizer.init(online params) for
\* the optimizer now installed, and no step has changed that structure since
\* construction
C16_OptimizerStateStructure ==
    /\ [](\A l \in Learners : learner[l].status = "ready" => StructureOfInit(l))
    /\ [][StructureKept]_vars

\* an update returned after the optimizer had been replaced by assignment,
\* with an optimizer_state other than a freshly initialised one
C16_Witness ==
    /\ last.op = "update" /\ last.exc = ""
    /\ Caller.optimizer = Sgd(Rat(1, 4))
    /\ learner[last.l].optimizer_state # last.learner[last.l].optimizer_state
        \/ Now.params # Before.params
    /\ StructureOfInit(last.l)

\* C17: when the target functions, the target policy and the regularizer's
\* function of a learner are other objects than its online function, an
\* update or update_from_grads of that learner, returning or raising, leaves
\* the params and function_state of every function but its online function
\* unchanged, and leaves every other learner as it was
C17_WritesOnlyOnline ==
    (last.op \in {"update", "update_from_grads"}
        /\ Caller.f \notin BundleObjects(Caller))
        => /\ \A o \in ObjIds \ {Caller.f} :
                 /\ fn[o].params = last.fn[o].params
                 /\ fn[o].function_state = last.fn[o].function_state
           /\ \A l \in Learners \ {last.l} : learner[l] = last.learner[l]

\* of two learners that share their target function and target policy, one
\* has been updated after the other: both online functions have moved
C17_Witness ==
    /\ last.op = "update" /\ last.exc = "" /\ last.l = "td"
    /\ learner["td2"].status = "ready"
    /\ learner["td"].f_targ = learner["td2"].f_targ
    /\ learner["td"].pi_targ = learner["td2"].pi_targ
    /\ learner["td"].f # learner["td2"].f
    /\ Now.params # Before.params
    /\ fn[learner["td2"].f].params # InitFn[learner["td2"].f].params
    /\ learner["td2"].optimizer_state # OptInit(learner["td2"].optimizer,
                                                InitFn[learner["td2"].f].params)

\* C18, as stated: in every evaluation of loss_func, scalar or
\* distributional, no key is handed to two sub-operations and the seed key
\* rng itself is handed to none
C18_KeysNeverShared ==
    /\ \A i, j \in DOMAIN draw.handed :
          i # j => draw.handed[i].key # draw.handed[j].key
    /\ \A i \in DOMAIN draw.handed : draw.handed[i].key # draw.rng
====
